---- MODULE Spec2Model ----
(***************************************************************************)
(* rabbit-playground: an AMQP publisher (src/publish/src/main.rs) and an   *)
(* AMQP subscriber (src/subscribe/src/main.rs).                            *)
(*                                                                         *)
(* Three state machines share this module:                                 *)
(*   SpecHeaders  Cli::headers applied to a bounded set of -p arguments    *)
(*   SpecPub      the publisher's main, statement by statement             *)
(*   SpecSub      the subscriber's main, the delivery delegate tasks the   *)
(*                client runtime spawns, and the broker's event stream     *)
(*                                                                         *)
(* A string is a sequence of one-character strings.  Option<T> is a record *)
(* [some |-> FALSE] or [some |-> TRUE, val |-> v].                         *)
(***************************************************************************)
EXTENDS Integers, Sequences, FiniteSets, TLC

VARIABLES
    \* ---- Cli::headers harness
    hArg,          \* Cli.headers : Option<Vec<String>>
    hPc,           \* "start" | "done"
    hResult,       \* the value returned by Cli::headers
    hLog,          \* what Cli::headers logged
    \* ---- publisher
    pArg,          \* Cli.headers of the publisher run
    pubPc,         \* position in main
    properties,    \* BasicProperties built at lines 93-96
    pubConn,       \* "none" | "open"
    pubChan,       \* "none" | "open"
    confirmMode,   \* channel is in publisher-confirms mode
    counter,       \* let mut counter: i32
    inflight,      \* publishes issued whose confirm is not yet resolved
    confirm,       \* the Confirmation the broker returned for the last publish
    confirmed,     \* the bool the async block returned
    reports,       \* per publish: the confirmation and what main reported
    sent,          \* the messages handed to basic_publish
    pubCalls,      \* broker operations the publisher invoked, in order
    pubExit,       \* "running" | 0 | 101
    \* ---- subscriber
    subPc,         \* position in main
    subConn,       \* "none" | "open" | "closing" | "closed"
    subChan,       \* "none" | "open" | "error" | "closing" | "closed"
    stream,        \* the consumer's event stream: "idle" | "open" | "errored" | "ended"
    delegateSet,   \* set_delegate has run
    tasks,         \* one record per stream event: the event and its delegate task
    rendered,      \* delivery tags whose info! line was written
    ackCalls,      \* per delivery tag, the calls of delivery.ack
    acksSent,      \* per delivery tag, the basic.ack frames handed to the channel
    subCalls,      \* broker operations the subscriber invoked, in order
    subLog,        \* warn/error lines and panic messages written
    interrupted,   \* ctrl_c() resolved Ok(())
    subRet,        \* what main is returning: "none" | "ok" | "err" | "panic"
    subExit        \* "running" | 0 | 1 | 101

hVars == <<hArg, hPc, hResult, hLog>>
pubVars == <<pArg, pubPc, properties, pubConn, pubChan, confirmMode, counter,
             inflight, confirm, confirmed, reports, sent, pubCalls, pubExit>>
subVars == <<subPc, subConn, subChan, stream, delegateSet, tasks, rendered, ackCalls,
             acksSent, subCalls, subLog, interrupted, subRet, subExit>>
vars == <<hVars, pubVars, subVars>>

----------------------------------------------------------------------------
\* Bounds

MaxStrLen == 3      \* longest header entry given to the Cli::headers harness
MaxEntries == 2     \* most header entries given to the Cli::headers harness
PubStrLen == 3      \* longest header entry of a publisher run
PubEntries == 1     \* most header entries of a publisher run
MaxSends == 2       \* most operator-approved sends of a publisher run
MaxEvents == 3      \* most events the broker puts on the subscriber's stream

----------------------------------------------------------------------------
\* Values

None == [some |-> FALSE]
Some(v) == [some |-> TRUE, val |-> v]

Chars == {"a", "="}
Strs(n) == UNION {[1..k -> Chars] : k \in 0..n}
HeaderArgs(maxEntries, maxLen) ==
    {None} \cup {Some(l) : l \in UNION {[1..k -> Strs(maxLen)] : k \in 1..maxEntries}}

EmptyFieldTable == [k \in {} |-> <<>>]
Insert(ft, key, value) ==
    [k \in DOMAIN ft \cup {key} |-> IF k = key THEN value ELSE ft[k]]

----------------------------------------------------------------------------
\* Cli::headers

\* str::split('='): the pieces between the '=' characters, at least one piece
RECURSIVE Split(_)
Split(s) ==
    IF \A i \in 1..Len(s) : s[i] # "="
    THEN <<s>>
    ELSE LET i == CHOOSE j \in 1..Len(s) :
                      s[j] = "=" /\ \A m \in 1..(j - 1) : s[m] # "="
         IN <<SubSeq(s, 1, i - 1)>> \o Split(SubSeq(s, i + 1, Len(s)))

\* a faulty variant of the fold's closure that keeps the first value of a key
FoldStepFirstWins(acc, s) ==
    LET parts == Split(s) IN
    IF Len(parts) >= 2
    THEN [ft |-> IF parts[1] \in DOMAIN acc.ft THEN acc.ft
                 ELSE Insert(acc.ft, parts[1], parts[2]),
          log |-> Append(acc.log, [level |-> "debug", key |-> parts[1], value |-> parts[2]])]
    ELSE [ft |-> acc.ft, log |-> Append(acc.log, [level |-> "warn", entry |-> s])]

\* the closure of the fold: (parts.next(), parts.next())
FoldStep(acc, s) ==
    LET parts == Split(s) IN
    IF Len(parts) >= 2
    THEN [ft |-> Insert(acc.ft, parts[1], parts[2]),
          log |-> Append(acc.log, [level |-> "debug", key |-> parts[1], value |-> parts[2]])]
    ELSE [ft |-> acc.ft, log |-> Append(acc.log, [level |-> "warn", entry |-> s])]

RECURSIVE Fold(_, _, _)
Fold(acc, l, i) ==
    IF i > Len(l) THEN acc ELSE Fold(FoldStep(acc, l[i]), l, i + 1)

\* a faulty variant of Cli::headers that turns an empty table into None
CliHeadersDropEmpty(arg) ==
    IF arg.some /\ DOMAIN (Fold([ft |-> EmptyFieldTable, log |-> <<>>], arg.val, 1).ft) # {}
    THEN Some(Fold([ft |-> EmptyFieldTable, log |-> <<>>], arg.val, 1).ft)
    ELSE None

CliHeaders(arg) ==
    IF arg.some
    THEN Some(Fold([ft |-> EmptyFieldTable, log |-> <<>>], arg.val, 1).ft)
    ELSE None

CliHeadersLog(arg) ==
    IF arg.some
    THEN Fold([ft |-> EmptyFieldTable, log |-> <<>>], arg.val, 1).log
    ELSE <<>>

HeadersCallSome ==
    /\ hPc = "start"
    /\ hArg.some
    /\ hResult' = CliHeaders(hArg)
    /\ hLog' = CliHeadersLog(hArg)
    /\ hPc' = "done"
    /\ UNCHANGED <<hArg, pubVars, subVars>>

HeadersCallNone ==
    /\ hPc = "start"
    /\ ~hArg.some
    /\ hResult' = CliHeaders(hArg)
    /\ hLog' = CliHeadersLog(hArg)
    /\ hPc' = "done"
    /\ UNCHANGED <<hArg, pubVars, subVars>>

----------------------------------------------------------------------------
\* Publisher

\* lapin::publisher_confirm::Confirmation: Ack(Option<msg>), Nack(Option<msg>),
\* NotRequested
Confirmations ==
    {[kind |-> k, returned |-> r] : k \in {"ack", "nack"}, r \in BOOLEAN}
        \cup {[kind |-> "not_requested", returned |-> FALSE]}

\* a faulty variant of the classification that takes every ack for a success
ClassifyAnyAck(c) ==
    IF c.kind = "ack" THEN [ok |-> TRUE, log |-> "accepted"]
    ELSE IF c.kind = "nack" THEN [ok |-> FALSE, log |-> "not_acknowledged"]
    ELSE [ok |-> FALSE, log |-> "unknown"]

\* lines 164-179
Classify(c) ==
    IF c.kind = "ack"
    THEN IF c.returned
         THEN [ok |-> FALSE, log |-> "rejected"]
         ELSE [ok |-> TRUE, log |-> "accepted"]
    ELSE IF c.kind = "nack"
    THEN [ok |-> FALSE, log |-> "not_acknowledged"]
    ELSE [ok |-> FALSE, log |-> "unknown"]

PubPanic ==
    /\ pubPc' = "exited"
    /\ pubExit' = 101

PubBuildProperties ==
    /\ pubPc = "start"
    /\ properties' = [headers |-> CliHeaders(pArg)]
    /\ pubPc' = "connect"
    /\ UNCHANGED <<pArg, pubConn, pubChan, confirmMode, counter, inflight, confirm,
                   confirmed, reports, sent, pubCalls, pubExit, hVars, subVars>>

PubConnectOk ==
    /\ pubPc = "connect"
    /\ pubCalls' = Append(pubCalls, "connect")
    /\ pubConn' = "open"
    /\ pubPc' = "create_channel"
    /\ UNCHANGED <<pArg, properties, pubChan, confirmMode, counter, inflight, confirm,
                   confirmed, reports, sent, pubExit, hVars, subVars>>

PubConnectFail ==
    /\ pubPc = "connect"
    /\ pubCalls' = Append(pubCalls, "connect")
    /\ PubPanic
    /\ UNCHANGED <<pArg, properties, pubConn, pubChan, confirmMode, counter, inflight,
                   confirm, confirmed, reports, sent, hVars, subVars>>

\* a faulty variant of the channel set-up that leaves out confirm_select
PubCreateChannelOkNoConfirms ==
    /\ pubPc = "create_channel"
    /\ pubCalls' = Append(pubCalls, "create_channel")
    /\ pubChan' = "open"
    /\ pubPc' = "prompt"
    /\ UNCHANGED <<pArg, properties, pubConn, confirmMode, counter, inflight, confirm,
                   confirmed, reports, sent, pubExit, hVars, subVars>>

PubCreateChannelOk ==
    /\ pubPc = "create_channel"
    /\ pubCalls' = Append(pubCalls, "create_channel")
    /\ pubChan' = "open"
    /\ pubPc' = "confirm_select"
    /\ UNCHANGED <<pArg, properties, pubConn, confirmMode, counter, inflight, confirm,
                   confirmed, reports, sent, pubExit, hVars, subVars>>

PubCreateChannelFail ==
    /\ pubPc = "create_channel"
    /\ pubCalls' = Append(pubCalls, "create_channel")
    /\ PubPanic
    /\ UNCHANGED <<pArg, properties, pubConn, pubChan, confirmMode, counter, inflight,
                   confirm, confirmed, reports, sent, hVars, subVars>>

PubConfirmSelectOk ==
    /\ pubPc = "confirm_select"
    /\ pubCalls' = Append(pubCalls, "confirm_select")
    /\ confirmMode' = TRUE
    /\ pubPc' = "prompt"
    /\ UNCHANGED <<pArg, properties, pubConn, pubChan, counter, inflight, confirm,
                   confirmed, reports, sent, pubExit, hVars, subVars>>

PubConfirmSelectFail ==
    /\ pubPc = "confirm_select"
    /\ pubCalls' = Append(pubCalls, "confirm_select")
    /\ PubPanic
    /\ UNCHANGED <<pArg, properties, pubConn, pubChan, confirmMode, counter, inflight,
                   confirm, confirmed, reports, sent, hVars, subVars>>

\* the operator answers yes
PubPromptYes ==
    /\ pubPc = "prompt"
    /\ counter < MaxSends
    /\ counter' = counter + 1
    /\ pubPc' = "publish"
    /\ UNCHANGED <<pArg, properties, pubConn, pubChan, confirmMode, inflight, confirm,
                   confirmed, reports, sent, pubCalls, pubExit, hVars, subVars>>

\* the operator answers no, or the prompt fails: unwrap_or(Answer::Bool(false))
PubPromptNo ==
    /\ pubPc = "prompt"
    /\ pubPc' = "finish"
    /\ UNCHANGED <<pArg, properties, pubConn, pubChan, confirmMode, counter, inflight,
                   confirm, confirmed, reports, sent, pubCalls, pubExit, hVars, subVars>>

\* a faulty variant of the publish that returns to the prompt without awaiting the confirm
PubBasicPublishOkNoAwait ==
    /\ pubPc = "publish"
    /\ pubCalls' = Append(pubCalls, "basic_publish")
    /\ sent' = Append(sent, [payload |-> counter, mandatory |-> TRUE,
                             headers |-> properties.headers])
    /\ inflight' = inflight \cup {counter}
    /\ pubPc' = "prompt"
    /\ UNCHANGED <<pArg, properties, pubConn, pubChan, confirmMode, counter, confirm,
                   confirmed, reports, pubExit, hVars, subVars>>

\* basic_publish(...).await is Ok: the message is on the wire
PubBasicPublishOk ==
    /\ pubPc = "publish"
    /\ pubCalls' = Append(pubCalls, "basic_publish")
    /\ sent' = Append(sent, [payload |-> counter, mandatory |-> TRUE,
                             headers |-> properties.headers])
    /\ inflight' = inflight \cup {counter}
    /\ pubPc' = "await_confirm"
    /\ UNCHANGED <<pArg, properties, pubConn, pubChan, confirmMode, counter, confirm,
                   confirmed, reports, pubExit, hVars, subVars>>

PubBasicPublishFail ==
    /\ pubPc = "publish"
    /\ pubCalls' = Append(pubCalls, "basic_publish")
    /\ PubPanic
    /\ UNCHANGED <<pArg, properties, pubConn, pubChan, confirmMode, counter, inflight,
                   confirm, confirmed, reports, sent, hVars, subVars>>

\* the PublisherConfirm resolves to a Confirmation, which lines 164-179 classify
PubConfirmResolved ==
    /\ pubPc = "await_confirm"
    /\ \E c \in Confirmations :
        /\ confirm' = c
        /\ confirmed' = Classify(c).ok
    /\ inflight' = inflight \ {counter}
    /\ pubPc' = "report"
    /\ UNCHANGED <<pArg, properties, pubConn, pubChan, confirmMode, counter, reports,
                   sent, pubCalls, pubExit, hVars, subVars>>

PubConfirmFail ==
    /\ pubPc = "await_confirm"
    /\ PubPanic
    /\ UNCHANGED <<pArg, properties, pubConn, pubChan, confirmMode, counter, inflight,
                   confirm, confirmed, reports, sent, pubCalls, hVars, subVars>>

\* a faulty variant of the report that treats a failed confirm as fatal
PubReportFailureIsFatal ==
    /\ pubPc = "report"
    /\ reports' = Append(reports, [n |-> counter, confirm |-> confirm,
                                   outcome |-> Classify(confirm).log,
                                   success |-> confirmed])
    /\ IF confirmed
       THEN pubPc' = "prompt" /\ UNCHANGED pubExit
       ELSE PubPanic
    /\ UNCHANGED <<pArg, properties, pubConn, pubChan, confirmMode, counter, inflight,
                   confirm, confirmed, sent, pubCalls, hVars, subVars>>

\* lines 181-185
PubReport ==
    /\ pubPc = "report"
    /\ reports' = Append(reports, [n |-> counter, confirm |-> confirm,
                                   outcome |-> Classify(confirm).log,
                                   success |-> confirmed])
    /\ pubPc' = "prompt"
    /\ UNCHANGED <<pArg, properties, pubConn, pubChan, confirmMode, counter, inflight,
                   confirm, confirmed, sent, pubCalls, pubExit, hVars, subVars>>

\* lines 187-189
PubFinish ==
    /\ pubPc = "finish"
    /\ pubPc' = "exited"
    /\ pubExit' = 0
    /\ UNCHANGED <<pArg, properties, pubConn, pubChan, confirmMode, counter, inflight,
                   confirm, confirmed, reports, sent, pubCalls, hVars, subVars>>

----------------------------------------------------------------------------
\* Subscriber

Tags == 1..MaxEvents

Call(op, arg) == [op |-> op, arg |-> arg]

\* a delegate task is inside a poll: between two suspension points
MidPoll(t) == t.pc \in {"render", "ack"}

SubAlive == subPc # "exited"

\* ---- main

SubConnectOk ==
    /\ subPc = "connect"
    /\ subCalls' = Append(subCalls, Call("connect", 0))
    /\ subConn' = "open"
    /\ subPc' = "create_channel"
    /\ UNCHANGED <<subChan, stream, delegateSet, tasks, rendered, ackCalls, acksSent,
                   subLog, interrupted, subRet, subExit, hVars, pubVars>>

\* .expect("Create connection failure!")
SubConnectFail ==
    /\ subPc = "connect"
    /\ subCalls' = Append(subCalls, Call("connect", 0))
    /\ subLog' = subLog \cup {[level |-> "panic", msg |-> "Create connection failure!", tag |-> 0]}
    /\ subRet' = "panic"
    /\ subPc' = "returning"
    /\ UNCHANGED <<subConn, subChan, stream, delegateSet, tasks, rendered, ackCalls,
                   acksSent, interrupted, subExit, hVars, pubVars>>

SubCreateChannelOk ==
    /\ subPc = "create_channel"
    /\ subCalls' = Append(subCalls, Call("create_channel", 0))
    /\ subChan' = "open"
    /\ subPc' = "basic_consume"
    /\ UNCHANGED <<subConn, stream, delegateSet, tasks, rendered, ackCalls, acksSent,
                   subLog, interrupted, subRet, subExit, hVars, pubVars>>

\* a faulty variant of the failed create_channel that goes on to subscribe
SubCreateChannelFailGoesOn ==
    /\ subPc = "create_channel"
    /\ subCalls' = Append(subCalls, Call("create_channel", 0))
    /\ subPc' = "basic_consume"
    /\ UNCHANGED <<subConn, subChan, stream, delegateSet, tasks, rendered, ackCalls,
                   acksSent, subLog, interrupted, subRet, subExit, hVars, pubVars>>

\* .expect("Create channel failure!")
SubCreateChannelFail ==
    /\ subPc = "create_channel"
    /\ subCalls' = Append(subCalls, Call("create_channel", 0))
    /\ subLog' = subLog \cup {[level |-> "panic", msg |-> "Create channel failure!", tag |-> 0]}
    /\ subRet' = "panic"
    /\ subPc' = "returning"
    /\ UNCHANGED <<subConn, subChan, stream, delegateSet, tasks, rendered, ackCalls,
                   acksSent, interrupted, subExit, hVars, pubVars>>

SubBasicConsumeOk ==
    /\ subPc = "basic_consume"
    /\ subCalls' = Append(subCalls, Call("basic_consume", 0))
    /\ stream' = "open"
    /\ subPc' = "set_delegate"
    /\ UNCHANGED <<subConn, subChan, delegateSet, tasks, rendered, ackCalls, acksSent,
                   subLog, interrupted, subRet, subExit, hVars, pubVars>>

\* .await? : main returns the error
SubBasicConsumeFail ==
    /\ subPc = "basic_consume"
    /\ subCalls' = Append(subCalls, Call("basic_consume", 0))
    /\ subRet' = "err"
    /\ subPc' = "returning"
    /\ UNCHANGED <<subConn, subChan, stream, delegateSet, tasks, rendered, ackCalls,
                   acksSent, subLog, interrupted, subExit, hVars, pubVars>>

\* set_delegate hands the events already buffered to the delegate, each in a task
SubSetDelegate ==
    /\ subPc = "set_delegate"
    /\ delegateSet' = TRUE
    /\ tasks' = [i \in DOMAIN tasks |->
                    IF tasks[i].pc = "buffered" THEN [tasks[i] EXCEPT !.pc = "spawned"]
                    ELSE tasks[i]]
    /\ subPc' = "ctrl_c"
    /\ UNCHANGED <<subConn, subChan, stream, rendered, ackCalls, acksSent, subCalls,
                   subLog, interrupted, subRet, subExit, hVars, pubVars>>

\* a faulty variant of the Ok(()) arm that closes the connection without closing the channel
SubCtrlCOkSkipChannelClose ==
    /\ subPc = "ctrl_c"
    /\ interrupted' = TRUE
    /\ subPc' = "connection_close"
    /\ UNCHANGED <<subConn, subChan, stream, delegateSet, tasks, rendered, ackCalls,
                   acksSent, subCalls, subLog, subRet, subExit, hVars, pubVars>>

\* signal::ctrl_c().await is Ok(()): the interrupt was observed
SubCtrlCOk ==
    /\ subPc = "ctrl_c"
    /\ interrupted' = TRUE
    /\ subPc' = "channel_close"
    /\ UNCHANGED <<subConn, subChan, stream, delegateSet, tasks, rendered, ackCalls,
                   acksSent, subCalls, subLog, subRet, subExit, hVars, pubVars>>

\* signal::ctrl_c().await is Err: the listener could not be registered
SubCtrlCErr ==
    /\ subPc = "ctrl_c"
    /\ subLog' = subLog \cup {[level |-> "error", msg |-> "Unable to listen for shutdown signal", tag |-> 0]}
    /\ subPc' = "shutting_down"
    /\ UNCHANGED <<subConn, subChan, stream, delegateSet, tasks, rendered, ackCalls,
                   acksSent, subCalls, interrupted, subRet, subExit, hVars, pubVars>>

\* channel.close(0, "OK") on a connected channel: the close is sent
SubChannelCloseSend ==
    /\ subPc = "channel_close"
    /\ subChan = "open"
    /\ subCalls' = Append(subCalls, Call("channel_close", 0))
    /\ subChan' = "closing"
    /\ subPc' = "await_channel_close"
    /\ UNCHANGED <<subConn, stream, delegateSet, tasks, rendered, ackCalls, acksSent,
                   subLog, interrupted, subRet, subExit, hVars, pubVars>>

\* channel.close(0, "OK") on a channel that is no longer connected: Err, returned by ?
SubChannelCloseInvalid ==
    /\ subPc = "channel_close"
    /\ subChan # "open"
    /\ subCalls' = Append(subCalls, Call("channel_close", 0))
    /\ subRet' = "err"
    /\ subPc' = "returning"
    /\ UNCHANGED <<subConn, subChan, stream, delegateSet, tasks, rendered, ackCalls,
                   acksSent, subLog, interrupted, subExit, hVars, pubVars>>

SubChannelCloseOk ==
    /\ subPc = "await_channel_close"
    /\ subChan' = "closed"
    /\ stream' = IF stream = "open" THEN "ended" ELSE stream
    /\ subPc' = "connection_close"
    /\ UNCHANGED <<subConn, delegateSet, tasks, rendered, ackCalls, acksSent, subCalls,
                   subLog, interrupted, subRet, subExit, hVars, pubVars>>

\* a faulty variant of the failed channel close that goes on to close the connection
SubChannelCloseFailGoesOn ==
    /\ subPc = "await_channel_close"
    /\ subChan' = "error"
    /\ subPc' = "connection_close"
    /\ UNCHANGED <<subConn, stream, delegateSet, tasks, rendered, ackCalls, acksSent,
                   subCalls, subLog, interrupted, subRet, subExit, hVars, pubVars>>

SubChannelCloseFail ==
    /\ subPc = "await_channel_close"
    /\ subChan' = "error"
    /\ subRet' = "err"
    /\ subPc' = "returning"
    /\ UNCHANGED <<subConn, stream, delegateSet, tasks, rendered, ackCalls, acksSent,
                   subCalls, subLog, interrupted, subExit, hVars, pubVars>>

SubConnectionCloseSend ==
    /\ subPc = "connection_close"
    /\ subCalls' = Append(subCalls, Call("connection_close", 0))
    /\ subConn' = "closing"
    /\ subPc' = "await_connection_close"
    /\ UNCHANGED <<subChan, stream, delegateSet, tasks, rendered, ackCalls, acksSent,
                   subLog, interrupted, subRet, subExit, hVars, pubVars>>

SubConnectionCloseOk ==
    /\ subPc = "await_connection_close"
    /\ subConn' = "closed"
    /\ subPc' = "shutting_down"
    /\ UNCHANGED <<subChan, stream, delegateSet, tasks, rendered, ackCalls, acksSent,
                   subCalls, subLog, interrupted, subRet, subExit, hVars, pubVars>>

SubConnectionCloseFail ==
    /\ subPc = "await_connection_close"
    /\ subRet' = "err"
    /\ subPc' = "returning"
    /\ UNCHANGED <<subConn, subChan, stream, delegateSet, tasks, rendered, ackCalls,
                   acksSent, subCalls, subLog, interrupted, subExit, hVars, pubVars>>

\* info!("Shutting Down"); Ok(())
SubShuttingDown ==
    /\ subPc = "shutting_down"
    /\ subLog' = subLog \cup {[level |-> "info", msg |-> "Shutting Down", tag |-> 0]}
    /\ subRet' = "ok"
    /\ subPc' = "returning"
    /\ UNCHANGED <<subConn, subChan, stream, delegateSet, tasks, rendered, ackCalls,
                   acksSent, subCalls, interrupted, subExit, hVars, pubVars>>

\* #[tokio::main]: main's value is returned once the runtime is dropped, which lets
\* every task that is inside a poll reach its next suspension point and drops the rest
SubProcessExit ==
    /\ subPc = "returning"
    /\ \A i \in DOMAIN tasks : ~MidPoll(tasks[i])
    /\ subExit' = CASE subRet = "ok" -> 0
                    [] subRet = "err" -> 1
                    [] OTHER -> 101
    /\ subPc' = "exited"
    /\ UNCHANGED <<subConn, subChan, stream, delegateSet, tasks, rendered, ackCalls,
                   acksSent, subCalls, subLog, interrupted, subRet, hVars, pubVars>>

\* ---- the broker's event stream

NewTask(kind, utf8) ==
    [kind |-> kind, tag |-> Len(tasks) + 1, utf8 |-> utf8,
     pc |-> IF delegateSet THEN "spawned" ELSE "buffered"]

\* Ok(Some(delivery))
BrokerDelivers ==
    /\ SubAlive
    /\ stream = "open"
    /\ subChan = "open"
    /\ Len(tasks) < MaxEvents
    /\ \E utf8 \in BOOLEAN : tasks' = Append(tasks, NewTask("delivery", utf8))
    /\ UNCHANGED <<subPc, subConn, subChan, stream, delegateSet, rendered, ackCalls,
                   acksSent, subCalls, subLog, interrupted, subRet, subExit, hVars, pubVars>>

\* Err(error): the channel or its connection failed
BrokerError ==
    /\ SubAlive
    /\ stream = "open"
    /\ subChan = "open"
    /\ Len(tasks) < MaxEvents
    /\ tasks' = Append(tasks, NewTask("error", TRUE))
    /\ stream' = "errored"
    /\ subChan' = "error"
    /\ UNCHANGED <<subPc, subConn, delegateSet, rendered, ackCalls, acksSent, subCalls,
                   subLog, interrupted, subRet, subExit, hVars, pubVars>>

\* Ok(None): the consumer is cancelled; it always follows an Err
BrokerCancels ==
    /\ SubAlive
    /\ stream \in {"open", "errored"}
    /\ Len(tasks) < MaxEvents
    /\ tasks' = Append(tasks, NewTask("cancelled", TRUE))
    /\ stream' = "ended"
    /\ UNCHANGED <<subPc, subConn, subChan, delegateSet, rendered, ackCalls, acksSent,
                   subCalls, subLog, interrupted, subRet, subExit, hVars, pubVars>>

\* ---- the delegate, one task per event (lines 77-116)

SetPc(i, pc) == [tasks EXCEPT ![i].pc = pc]

TaskStartDelivery(i) ==
    /\ SubAlive
    /\ tasks[i].pc = "spawned"
    /\ tasks[i].kind = "delivery"
    /\ tasks' = SetPc(i, "render")
    /\ UNCHANGED <<subPc, subConn, subChan, stream, delegateSet, rendered, ackCalls,
                   acksSent, subCalls, subLog, interrupted, subRet, subExit, hVars, pubVars>>

\* a faulty variant of the Ok(None) arm that starts the shutdown
TaskStartCancelledShutsDown(i) ==
    /\ SubAlive
    /\ tasks[i].pc = "spawned"
    /\ tasks[i].kind = "cancelled"
    /\ tasks' = SetPc(i, "done")
    /\ subPc' = "channel_close"
    /\ UNCHANGED <<subConn, subChan, stream, delegateSet, rendered, ackCalls,
                   acksSent, subCalls, subLog, interrupted, subRet, subExit, hVars, pubVars>>

TaskStartCancelled(i) ==
    /\ SubAlive
    /\ tasks[i].pc = "spawned"
    /\ tasks[i].kind = "cancelled"
    /\ tasks' = SetPc(i, "done")
    /\ UNCHANGED <<subPc, subConn, subChan, stream, delegateSet, rendered, ackCalls,
                   acksSent, subCalls, subLog, interrupted, subRet, subExit, hVars, pubVars>>

\* a faulty variant of the Err arm that returns without logging
TaskStartErrorSilent(i) ==
    /\ SubAlive
    /\ tasks[i].pc = "spawned"
    /\ tasks[i].kind = "error"
    /\ tasks' = SetPc(i, "done")
    /\ UNCHANGED <<subPc, subConn, subChan, stream, delegateSet, rendered, ackCalls,
                   acksSent, subCalls, subLog, interrupted, subRet, subExit, hVars, pubVars>>

TaskStartError(i) ==
    /\ SubAlive
    /\ tasks[i].pc = "spawned"
    /\ tasks[i].kind = "error"
    /\ subLog' = subLog \cup {[level |-> "warn", msg |-> "Failed to consume queue message", tag |-> i]}
    /\ tasks' = SetPc(i, "done")
    /\ UNCHANGED <<subPc, subConn, subChan, stream, delegateSet, rendered, ackCalls,
                   acksSent, subCalls, interrupted, subRet, subExit, hVars, pubVars>>

\* info!(... str::from_utf8(&delivery.data[..]).unwrap())
TaskRender(i) ==
    /\ SubAlive
    /\ tasks[i].pc = "render"
    /\ tasks[i].utf8
    /\ rendered' = rendered \cup {tasks[i].tag}
    /\ tasks' = SetPc(i, "ack")
    /\ UNCHANGED <<subPc, subConn, subChan, stream, delegateSet, ackCalls, acksSent,
                   subCalls, subLog, interrupted, subRet, subExit, hVars, pubVars>>

\* a faulty variant of the render that replaces the invalid bytes and goes on
TaskRenderPanicLossy(i) ==
    /\ SubAlive
    /\ tasks[i].pc = "render"
    /\ ~tasks[i].utf8
    /\ rendered' = rendered \cup {tasks[i].tag}
    /\ tasks' = SetPc(i, "ack")
    /\ UNCHANGED <<subPc, subConn, subChan, stream, delegateSet, ackCalls, acksSent,
                   subCalls, subLog, interrupted, subRet, subExit, hVars, pubVars>>

TaskRenderPanic(i) ==
    /\ SubAlive
    /\ tasks[i].pc = "render"
    /\ ~tasks[i].utf8
    /\ subLog' = subLog \cup {[level |-> "panic", msg |-> "Utf8Error", tag |-> tasks[i].tag]}
    /\ tasks' = SetPc(i, "panicked")
    /\ UNCHANGED <<subPc, subConn, subChan, stream, delegateSet, rendered, ackCalls,
                   acksSent, subCalls, interrupted, subRet, subExit, hVars, pubVars>>

\* delivery.ack(BasicAckOptions::default()) on a connected channel: the ack is sent
TaskAckSend(i) ==
    /\ SubAlive
    /\ tasks[i].pc = "ack"
    /\ subChan = "open"
    /\ ackCalls' = [ackCalls EXCEPT ![tasks[i].tag] = @ + 1]
    /\ acksSent' = [acksSent EXCEPT ![tasks[i].tag] = @ + 1]
    /\ subCalls' = Append(subCalls, Call("basic_ack", tasks[i].tag))
    /\ tasks' = SetPc(i, "await_ack")
    /\ UNCHANGED <<subPc, subConn, subChan, stream, delegateSet, rendered, subLog,
                   interrupted, subRet, subExit, hVars, pubVars>>

\* delivery.ack(...) on a channel that is closing, closed or failed: the client
\* refuses it, and .expect("Message acknowledgement failed!") panics the task
TaskAckRefused(i) ==
    /\ SubAlive
    /\ tasks[i].pc = "ack"
    /\ subChan # "open"
    /\ ackCalls' = [ackCalls EXCEPT ![tasks[i].tag] = @ + 1]
    /\ subCalls' = Append(subCalls, Call("basic_ack", tasks[i].tag))
    /\ subLog' = subLog \cup {[level |-> "panic", msg |-> "Message acknowledgement failed!", tag |-> tasks[i].tag]}
    /\ tasks' = SetPc(i, "panicked")
    /\ UNCHANGED <<subPc, subConn, subChan, stream, delegateSet, rendered, acksSent,
                   interrupted, subRet, subExit, hVars, pubVars>>

TaskAckOk(i) ==
    /\ SubAlive
    /\ tasks[i].pc = "await_ack"
    /\ tasks' = SetPc(i, "done")
    /\ UNCHANGED <<subPc, subConn, subChan, stream, delegateSet, rendered, ackCalls,
                   acksSent, subCalls, subLog, interrupted, subRet, subExit, hVars, pubVars>>

\* the ack's future resolves to Err: .expect panics the task
TaskAckErr(i) ==
    /\ SubAlive
    /\ tasks[i].pc = "await_ack"
    /\ subLog' = subLog \cup {[level |-> "panic", msg |-> "Message acknowledgement failed!", tag |-> tasks[i].tag]}
    /\ tasks' = SetPc(i, "panicked")
    /\ UNCHANGED <<subPc, subConn, subChan, stream, delegateSet, rendered, ackCalls,
                   acksSent, subCalls, interrupted, subRet, subExit, hVars, pubVars>>

TaskStepDelivery == \E i \in DOMAIN tasks : TaskStartDelivery(i)
TaskStepCancelled == \E i \in DOMAIN tasks : TaskStartCancelled(i)
TaskStepError == \E i \in DOMAIN tasks : TaskStartError(i)
TaskStepRender == \E i \in DOMAIN tasks : TaskRender(i)
TaskStepRenderPanic == \E i \in DOMAIN tasks : TaskRenderPanic(i)
TaskStepAckSend == \E i \in DOMAIN tasks : TaskAckSend(i)
TaskStepAckRefused == \E i \in DOMAIN tasks : TaskAckRefused(i)
TaskStepAckOk == \E i \in DOMAIN tasks : TaskAckOk(i)
TaskStepAckErr == \E i \in DOMAIN tasks : TaskAckErr(i)

----------------------------------------------------------------------------
\* Specifications

HInitIdle ==
    /\ hPc = "start"
    /\ hResult = None
    /\ hLog = <<>>

PubInitRest ==
    /\ properties = [headers |-> None]
    /\ pubConn = "none"
    /\ pubChan = "none"
    /\ confirmMode = FALSE
    /\ counter = 0
    /\ inflight = {}
    /\ confirm = [kind |-> "not_requested", returned |-> FALSE]
    /\ confirmed = FALSE
    /\ reports = <<>>
    /\ sent = <<>>
    /\ pubCalls = <<>>
    /\ pubExit = "running"

PubInitIdle ==
    /\ pubPc = "start"
    /\ PubInitRest

SubInitRest ==
    /\ subConn = "none"
    /\ subChan = "none"
    /\ stream = "idle"
    /\ delegateSet = FALSE
    /\ tasks = <<>>
    /\ rendered = {}
    /\ ackCalls = [t \in Tags |-> 0]
    /\ acksSent = [t \in Tags |-> 0]
    /\ subCalls = <<>>
    /\ subLog = {}
    /\ interrupted = FALSE
    /\ subRet = "none"
    /\ subExit = "running"

SubInitIdle ==
    /\ subPc = "connect"
    /\ SubInitRest

InitHeaders ==
    /\ hArg \in HeaderArgs(MaxEntries, MaxStrLen)
    /\ HInitIdle
    /\ pArg = None
    /\ PubInitIdle
    /\ SubInitIdle

NextHeaders ==
    \/ HeadersCallSome
    \/ HeadersCallNone

SpecHeaders == InitHeaders /\ [][NextHeaders]_vars

InitPub ==
    /\ hArg = None
    /\ HInitIdle
    /\ pArg \in HeaderArgs(PubEntries, PubStrLen)
    /\ PubInitIdle
    /\ SubInitIdle

NextPub ==
    \/ PubBuildProperties
    \/ PubConnectOk
    \/ PubConnectFail
    \/ PubCreateChannelOk
    \/ PubCreateChannelFail
    \/ PubConfirmSelectOk
    \/ PubConfirmSelectFail
    \/ PubPromptYes
    \/ PubPromptNo
    \/ PubBasicPublishOk
    \/ PubBasicPublishFail
    \/ PubConfirmResolved
    \/ PubConfirmFail
    \/ PubReport
    \/ PubFinish

SpecPub == InitPub /\ [][NextPub]_vars

InitSub ==
    /\ hArg = None
    /\ HInitIdle
    /\ pArg = None
    /\ PubInitIdle
    /\ SubInitIdle

NextSub ==
    \/ SubConnectOk
    \/ SubConnectFail
    \/ SubCreateChannelOk
    \/ SubCreateChannelFail
    \/ SubBasicConsumeOk
    \/ SubBasicConsumeFail
    \/ SubSetDelegate
    \/ SubCtrlCOk
    \/ SubCtrlCErr
    \/ SubChannelCloseSend
    \/ SubChannelCloseInvalid
    \/ SubChannelCloseOk
    \/ SubChannelCloseFail
    \/ SubConnectionCloseSend
    \/ SubConnectionCloseOk
    \/ SubConnectionCloseFail
    \/ SubShuttingDown
    \/ SubProcessExit
    \/ BrokerDelivers
    \/ BrokerError
    \/ BrokerCancels
    \/ TaskStepDelivery
    \/ TaskStepCancelled
    \/ TaskStepError
    \/ TaskStepRender
    \/ TaskStepRenderPanic
    \/ TaskStepAckSend
    \/ TaskStepAckRefused
    \/ TaskStepAckOk
    \/ TaskStepAckErr

SpecSub == InitSub /\ [][NextSub]_vars

\* one of the two programs is run; the other one is never started
InitEither ==
    /\ hArg = None
    /\ HInitIdle
    /\ \/ /\ pArg \in HeaderArgs(PubEntries, PubStrLen)
          /\ PubInitIdle
          /\ subPc = "off"
          /\ SubInitRest
       \/ /\ pArg = None
          /\ pubPc = "off"
          /\ PubInitRest
          /\ SubInitIdle

NextEither ==
    \/ NextPub
    \/ NextSub

SpecEither == InitEither /\ [][NextEither]_vars

----------------------------------------------------------------------------
\* Properties

\* the positions of the calls of one broker operation
PubCallsOf(op) == {j \in 1..Len(pubCalls) : pubCalls[j] = op}
SubCallsOf(op) == {j \in 1..Len(subCalls) : subCalls[j].op = op}

\* a header entry seen from outside the parser
HasEq(s) == \E i \in 1..Len(s) : s[i] = "="
FirstEq(s) == CHOOSE i \in 1..Len(s) : s[i] = "=" /\ \A m \in 1..(i - 1) : s[m] # "="
BeforeFirstEq(s) == SubSeq(s, 1, FirstEq(s) - 1)
AfterFirstEq(s) == SubSeq(s, FirstEq(s) + 1, Len(s))
\* the entry at i is the last one of the list with its key
LastOfKey(l, i) ==
    \A j \in (i + 1)..Len(l) : HasEq(l[j]) => BeforeFirstEq(l[j]) # BeforeFirstEq(l[i])

\* C1: at most one publish is unconfirmed at any time, and when publish K+1 is
\* about to be issued the K publishes before it are all resolved and reported.
C1_OnePublishInFlight ==
    /\ Cardinality(inflight) <= 1
    /\ pubPc = "publish" => (inflight = {} /\ Len(reports) = counter - 1)
    /\ Len(sent) - Len(reports) \in {0, 1}

\* the second publish is in flight, the first one resolved
C1_Witness ==
    /\ pubPc = "await_confirm"
    /\ counter = 2
    /\ inflight = {2}
    /\ Len(reports) = 1

\* C2: every publish that resolves gets exactly one outcome, one report in publish
\* order, and is reported successful exactly when the confirmation is an ack that
\* carries no returned message.
C2_SuccessIffAckWithoutReturn ==
    /\ \A i \in 1..Len(reports) :
        /\ reports[i].n = i
        /\ reports[i].outcome \in {"accepted", "rejected", "not_acknowledged", "unknown"}
        /\ reports[i].success <=> reports[i].outcome = "accepted"
        /\ reports[i].success <=>
              (reports[i].confirm.kind = "ack" /\ ~reports[i].confirm.returned)
    /\ pubPc = "report" => (confirmed <=> (confirm.kind = "ack" /\ ~confirm.returned))

\* an ack that carries a returned message was reported as a failure, and an ack
\* without one as a success
C2_Witness ==
    /\ Len(reports) = 2
    /\ reports[1].confirm = [kind |-> "ack", returned |-> TRUE]
    /\ ~reports[1].success
    /\ reports[2].confirm = [kind |-> "ack", returned |-> FALSE]
    /\ reports[2].success

\* C3: once the handler of a rendered delivery has ended, exactly one
\* acknowledgment has been sent for its tag, and no tag has more than one.  Runs in
\* which the channel itself failed (an Err event on the stream) are left out: there
\* no handler could acknowledge.
C3_RenderedAckedExactlyOnce ==
    /\ \A t \in Tags : acksSent[t] <= 1
    /\ (\A i \in DOMAIN tasks : tasks[i].kind # "error") =>
          \A i \in DOMAIN tasks :
              (tasks[i].tag \in rendered /\ tasks[i].pc \in {"done", "panicked"})
                  => acksSent[tasks[i].tag] = 1

\* C4: when the publisher ends by the operator's stop, channel close and then
\* connection close have been invoked.
C4_PublisherClosesOnExit ==
    (pubPc = "exited" /\ pubExit = 0) =>
        \E i \in PubCallsOf("channel_close") :
            \E j \in PubCallsOf("connection_close") : i < j

\* C5 as stated: an interrupt observed while nothing was ever delivered always ends
\* in exit code 0.
C5_IdleInterruptExitsZero ==
    (subPc = "exited" /\ interrupted /\ tasks = <<>>) => subExit = 0

\* C5 as amended: the closes are issued only after the interrupt, with code 0,
\* channel close first and connection close only once the channel is closed; the
\* process exits 0 exactly when both closes completed and 1 when one of them
\* failed; nothing happens after the exit.
C5_InterruptShutdownOrder ==
    /\ \A j \in SubCallsOf("channel_close") \cup SubCallsOf("connection_close") :
        interrupted /\ subCalls[j].arg = 0
    /\ \A j \in SubCallsOf("connection_close") :
        /\ subChan = "closed"
        /\ \E i \in SubCallsOf("channel_close") : i < j
    /\ Cardinality(SubCallsOf("channel_close")) <= 1
    /\ Cardinality(SubCallsOf("connection_close")) <= 1
    /\ (interrupted /\ subPc = "exited") =>
        /\ subExit \in {0, 1}
        /\ subExit = 0 <=> (subChan = "closed" /\ subConn = "closed")
        /\ SubCallsOf("channel_close") # {}
    /\ subPc = "exited" => ~ENABLED NextSub

\* the interrupt came while idle, both closes completed in order, exit code 0
C5_Witness ==
    /\ subPc = "exited"
    /\ interrupted
    /\ tasks = <<>>
    /\ subExit = 0
    /\ Len(subCalls) = 5
    /\ subCalls[4] = Call("channel_close", 0)
    /\ subCalls[5] = Call("connection_close", 0)

\* C6: exit code 0 only after the interrupt was observed and both closes
\* completed; in particular not when the signal listener failed to register.
C6_ExitZeroOnlyAfterCleanShutdown ==
    (subPc = "exited" /\ subExit = 0) =>
        (interrupted /\ subChan = "closed" /\ subConn = "closed")

\* C7: the value stored for an entry with an '=' (and no later entry of the same
\* key) is everything after the first '='.
C7_ValueIsAllAfterFirstEq ==
    (hPc = "done" /\ hArg.some) =>
        \A i \in 1..Len(hArg.val) :
            (HasEq(hArg.val[i]) /\ LastOfKey(hArg.val, i)) =>
                /\ hResult.some
                /\ BeforeFirstEq(hArg.val[i]) \in DOMAIN hResult.val
                /\ hResult.val[BeforeFirstEq(hArg.val[i])] = AfterFirstEq(hArg.val[i])

\* C8: the table has exactly the keys of the entries that hold an '=' (so an
\* entry without one hides neither the entries before it nor those after it), one
\* entry per key, and each key's value is the one parsed from its last occurrence.
C8_OneEntryPerKeyLastWins ==
    (hPc = "done" /\ hArg.some) =>
        /\ hResult.some
        /\ DOMAIN hResult.val =
              {BeforeFirstEq(hArg.val[i]) : i \in {j \in 1..Len(hArg.val) : HasEq(hArg.val[j])}}
        /\ \A i \in 1..Len(hArg.val) :
              (HasEq(hArg.val[i]) /\ LastOfKey(hArg.val, i)) =>
                  hResult.val[BeforeFirstEq(hArg.val[i])] = Split(hArg.val[i])[2]
        /\ Len(hLog) = Len(hArg.val)
        /\ \A i \in 1..Len(hArg.val) : (hLog[i].level = "warn") <=> ~HasEq(hArg.val[i])

\* a key given twice with different values keeps the second
C8_Witness ==
    /\ hPc = "done"
    /\ hArg = Some(<< <<"a", "=">>, <<"a", "=", "a">> >>)
    /\ hResult = Some([k \in {<<"a">>} |-> <<"a">>])

\* C9: every message sent carries a headers property exactly when the headers flag
\* was given, whatever the table holds.
C9_HeadersAttachedIffFlagGiven ==
    /\ pubPc # "start" => (properties.headers.some <=> pArg.some)
    /\ \A i \in 1..Len(sent) : sent[i].headers.some <=> pArg.some

\* the flag was given with an entry that does not parse: an empty table is attached
C9_Witness ==
    /\ Len(sent) = 2
    /\ pArg = Some(<< <<"a">> >>)
    /\ \A i \in 1..2 : sent[i].headers.some /\ DOMAIN sent[i].headers.val = {}

\* C10: no operation is invoked on the subscriber's channel before the connection
\* is open, nor once channel close has been invoked.
C10_NoUseAfterClose ==
    /\ \A j \in 1..Len(subCalls) :
          subCalls[j].op \in {"create_channel", "basic_consume", "basic_ack", "channel_close"}
              => \E i \in SubCallsOf("connect") : i < j
    /\ \A j \in SubCallsOf("basic_ack") \cup SubCallsOf("basic_consume") :
          \A i \in SubCallsOf("channel_close") : j < i

\* C11: when the subscriber has ended after an interrupt, every delivery that was
\* handed to the delegate has had its acknowledgment sent or a failure written to
\* the log.
C11_NoDeliveryDroppedSilently ==
    (subPc = "exited" /\ interrupted) =>
        \A i \in DOMAIN tasks :
            (tasks[i].kind = "delivery" /\ tasks[i].pc # "buffered") =>
                \/ acksSent[tasks[i].tag] >= 1
                \/ \E l \in subLog : l.tag = tasks[i].tag /\ l.level \in {"warn", "error", "panic"}

\* C12: in either program connect and create_channel are each tried at most
\* once; when one of them fails no further broker operation is invoked and the
\* process ends with a non-zero code.
C12_EstablishmentFailureIsFatal ==
    /\ Cardinality(PubCallsOf("connect")) <= 1
    /\ Cardinality(PubCallsOf("create_channel")) <= 1
    /\ Cardinality(SubCallsOf("connect")) <= 1
    /\ Cardinality(SubCallsOf("create_channel")) <= 1
    /\ pubConn = "none" => (Len(pubCalls) <= 1 /\ pubPc \in {"off", "start", "connect", "exited"})
    /\ pubChan = "none" =>
          (Len(pubCalls) <= 2 /\ pubPc \in {"off", "start", "connect", "create_channel", "exited"})
    /\ subConn = "none" =>
          (Len(subCalls) <= 1 /\ subPc \in {"off", "connect", "returning", "exited"})
    /\ subChan = "none" =>
          (Len(subCalls) <= 2 /\ subPc \in {"off", "connect", "create_channel", "returning", "exited"})
    /\ (pubPc = "exited" /\ (pubConn = "none" \/ pubChan = "none")) => pubExit = 101
    /\ (subPc \in {"returning", "exited"} /\ (subConn = "none" \/ subChan = "none")) =>
          subRet = "panic"
    /\ (subPc = "exited" /\ (subConn = "none" \/ subChan = "none")) => subExit = 101

\* the subscriber's create_channel failed after a successful connect: two calls,
\* exit code 101
C12_Witness ==
    /\ subPc = "exited"
    /\ subConn = "open"
    /\ subChan = "none"
    /\ Len(subCalls) = 2
    /\ subExit = 101

\* C14: a delivery starts being processed only when every delivery before it on
\* the stream has been handled to its end.
C14_HandlingNeverOverlaps ==
    \A i, j \in DOMAIN tasks :
        (/\ i < j
         /\ tasks[i].kind = "delivery"
         /\ tasks[j].kind = "delivery"
         /\ tasks[j].pc \notin {"buffered", "spawned"})
            => tasks[i].pc \in {"done", "panicked"}

\* C15: confirm_select is invoked at most once, right after create_channel on the
\* open channel and before any publish; every publish is issued on a channel in
\* confirm mode.
C15_ConfirmModeOnceBeforePublish ==
    /\ Cardinality(PubCallsOf("confirm_select")) <= 1
    /\ \A j \in PubCallsOf("confirm_select") :
        /\ j = 3
        /\ pubCalls[j - 1] = "create_channel"
        /\ pubChan = "open"
    /\ \A j \in PubCallsOf("basic_publish") :
        /\ confirmMode
        /\ \E i \in PubCallsOf("confirm_select") : i < j
    /\ confirmMode => (pubChan = "open" /\ Cardinality(PubCallsOf("confirm_select")) = 1)
    /\ pubPc \in {"prompt", "publish", "await_confirm", "report", "finish"} => confirmMode

\* two publishes were issued after the one confirm_select
C15_Witness ==
    /\ confirmMode
    /\ pubCalls = <<"connect", "create_channel", "confirm_select",
                    "basic_publish", "basic_publish">>

SignalErrorLogged ==
    [level |-> "error", msg |-> "Unable to listen for shutdown signal", tag |-> 0] \in subLog

\* C16 as stated: once the delegate is set, main leaves the wait for the interrupt
\* only when the interrupt has been observed.
C16_LeavesRunningOnlyOnInterrupt ==
    (delegateSet /\ subPc # "ctrl_c") => interrupted

\* C16 as amended: main leaves the wait for the interrupt only when the interrupt
\* was observed or when the listener could not be registered, whatever the stream
\* delivered; the closes are issued only after the interrupt, never after a failed
\* registration; connection close starts only once channel close has completed and
\* the last step only once connection close has completed.
C16_InterruptOrSignalFailureOnly ==
    /\ (delegateSet /\ subPc # "ctrl_c") => (interrupted \/ SignalErrorLogged)
    /\ ~(interrupted /\ SignalErrorLogged)
    /\ (SubCallsOf("channel_close") \cup SubCallsOf("connection_close")) # {} => interrupted
    /\ subPc \in {"channel_close", "await_channel_close", "connection_close",
                  "await_connection_close"} => interrupted
    /\ subPc \in {"connection_close", "await_connection_close"} => subChan = "closed"
    /\ (interrupted /\ subPc = "shutting_down") => (subChan = "closed" /\ subConn = "closed")

\* a failed delivery, an Err event and a cancellation have all been handled and
\* main still waits for the interrupt
C16_Witness ==
    /\ subPc = "ctrl_c"
    /\ ~interrupted
    /\ subCalls = <<Call("connect", 0), Call("create_channel", 0), Call("basic_consume", 0)>>
    /\ Len(tasks) = 3
    /\ tasks[1].kind = "delivery" /\ tasks[1].pc = "panicked"
    /\ tasks[2].kind = "error" /\ tasks[2].pc = "done"
    /\ tasks[3].kind = "cancelled" /\ tasks[3].pc = "done"

ConsumeFailureLog(i) == [level |-> "warn", msg |-> "Failed to consume queue message", tag |-> i]

\* C17 as stated, the part about the stream: an Err event leaves the stream open,
\* so that deliveries can still arrive after it.
C17_ErrorLeavesStreamOpen ==
    (Len(tasks) > 0 /\ tasks[Len(tasks)].kind = "error") => stream = "open"

\* C17 as amended: an Err event is logged once its task has run, and neither an Err
\* nor an Ok(None) event is rendered or acknowledged; Ok(None) logs nothing and is
\* the last event of the stream; the only event that follows an Err is Ok(None).
C17_ErrorLoggedCancelSilentNoAck ==
    \A i \in DOMAIN tasks :
        /\ tasks[i].kind \in {"error", "cancelled"} =>
              /\ ackCalls[i] = 0
              /\ acksSent[i] = 0
              /\ i \notin rendered
              /\ tasks[i].pc \in {"buffered", "spawned", "done"}
        /\ tasks[i].kind = "error" =>
              /\ (tasks[i].pc = "done") <=> (ConsumeFailureLog(i) \in subLog)
              /\ stream # "open"
              /\ i < Len(tasks) => (i + 1 = Len(tasks) /\ tasks[i + 1].kind = "cancelled")
        /\ tasks[i].kind = "cancelled" =>
              /\ \A l \in subLog : l.tag # i
              /\ i = Len(tasks)
              /\ stream = "ended"

\* a delivery was rendered and acknowledged, then an Err event was logged, then
\* the cancellation was handled
C17_Witness ==
    /\ Len(tasks) = 3
    /\ tasks[1].kind = "delivery" /\ tasks[1].pc = "done" /\ acksSent[1] = 1
    /\ tasks[2].kind = "error" /\ tasks[2].pc = "done"
    /\ tasks[3].kind = "cancelled" /\ tasks[3].pc = "done"
    /\ ConsumeFailureLog(2) \in subLog

Utf8PanicLog(t) == [level |-> "panic", msg |-> "Utf8Error", tag |-> t]

\* C18: a delivery whose payload is not valid UTF-8 is never rendered and ack is
\* never called nor sent for its tag: its task stops at the render, with the panic
\* on record; the panic stays in that task: as long as no interrupt was observed
\* and the listener did not fail, main still waits and the process runs.
C18_BadUtf8NeverAckedOthersGoOn ==
    /\ \A i \in DOMAIN tasks :
          (tasks[i].kind = "delivery" /\ ~tasks[i].utf8) =>
              /\ ackCalls[tasks[i].tag] = 0
              /\ acksSent[tasks[i].tag] = 0
              /\ tasks[i].tag \notin rendered
              /\ tasks[i].pc \in {"buffered", "spawned", "render", "panicked"}
              /\ (tasks[i].pc = "panicked") <=> (Utf8PanicLog(tasks[i].tag) \in subLog)
    /\ (/\ \E i \in DOMAIN tasks : tasks[i].pc = "panicked"
        /\ ~interrupted
        /\ ~SignalErrorLogged) => subPc = "ctrl_c"
    /\ (/\ \E i \in DOMAIN tasks : tasks[i].pc = "panicked"
        /\ subPc = "exited") => subExit \in {0, 1}

\* the first delivery failed on its payload, a later one was rendered and
\* acknowledged, and main still waits for the interrupt
C18_Witness ==
    /\ subPc = "ctrl_c"
    /\ Len(tasks) >= 2
    /\ tasks[1].kind = "delivery" /\ ~tasks[1].utf8 /\ tasks[1].pc = "panicked"
    /\ tasks[2].kind = "delivery" /\ tasks[2].utf8 /\ tasks[2].pc = "done"
    /\ 2 \in rendered
    /\ acksSent[2] = 1
    /\ acksSent[1] = 0

PubInLoop == pubPc \in {"prompt", "publish", "await_confirm", "report"}

\* C19: every resolved confirm is reported with its classification, a failed one
\* (rejected, not acknowledged, unknown) included, and the run goes on: inside the
\* loop the connection and the channel are open and in confirm mode whatever was
\* reported before; the k-th publish carries counter k, one step per publish; and
\* the run ends right after a report only through the operator's no (exit 0).
C19_FailedConfirmRunContinues ==
    /\ \A k \in DOMAIN reports :
          /\ reports[k].n = k
          /\ reports[k].success = Classify(reports[k].confirm).ok
          /\ reports[k].outcome = Classify(reports[k].confirm).log
          /\ ~reports[k].success =>
                reports[k].outcome \in {"rejected", "not_acknowledged", "unknown"}
    /\ \A k \in DOMAIN sent : sent[k].payload = k
    /\ PubInLoop => (pubConn = "open" /\ pubChan = "open" /\ confirmMode)
    /\ pubPc = "prompt" => (counter = Len(sent) /\ Len(reports) = Len(sent))
    /\ pubPc = "publish" => (counter = Len(sent) + 1 /\ Len(reports) = Len(sent))
    /\ pubPc \in {"await_confirm", "report"} =>
          (counter = Len(sent) /\ Len(reports) + 1 = Len(sent))
    /\ (/\ pubPc = "exited"
        /\ Len(reports) >= 1
        /\ Len(reports) = Len(sent)
        /\ Cardinality(PubCallsOf("basic_publish")) = Len(sent)) => pubExit = 0

\* two publishes in a row were reported as failures of different kinds and the
\* operator is asked again, the session still open and in confirm mode
C19_Witness ==
    /\ pubPc = "prompt"
    /\ Len(reports) = 2
    /\ reports[1].outcome = "rejected" /\ ~reports[1].success
    /\ reports[2].outcome = "unknown" /\ ~reports[2].success
    /\ sent[2].payload = 2
    /\ pubChan = "open" /\ confirmMode

ShuttingDownLog == [level |-> "info", msg |-> "Shutting Down", tag |-> 0]

ChannelCloseFailed ==
    /\ SubCallsOf("channel_close") # {}
    /\ subPc \in {"returning", "exited"}
    /\ subChan # "closed"

\* C20: connection close is called only with the channel closed, after the one
\* call of channel close; when channel close fails, main returns the error with
\* no connection close called and no "Shutting Down" logged, and the exit code is 1.
C20_ChannelCloseFailureSkipsConnectionClose ==
    /\ \A j \in SubCallsOf("connection_close") :
          /\ subChan = "closed"
          /\ \E i \in SubCallsOf("channel_close") : i < j
    /\ subPc \in {"connection_close", "await_connection_close"} => subChan = "closed"
    /\ ChannelCloseFailed =>
          /\ SubCallsOf("connection_close") = {}
          /\ subRet = "err"
          /\ ShuttingDownLog \notin subLog
          /\ subPc = "exited" => subExit = 1

\* the interrupt was observed, channel close failed and the process has exited
C20_Witness ==
    /\ interrupted
    /\ subPc = "exited"
    /\ subExit = 1
    /\ subChan = "error"
    /\ subConn = "open"
    /\ subCalls[Len(subCalls)] = Call("channel_close", 0)

====
